---- MODULE Spec2Model ----
(***************************************************************************)
(* A model of pyexchange/okex.py: the OKEX REST client (class OKEXApi).    *)
(*                                                                         *)
(* Three specifications share the module:                                  *)
(*   SpecResult  the response validator _result as a pure function of the  *)
(*               transport result and the check_result flag;               *)
(*   SpecSign    the request signer _create_signature over a parameter     *)
(*               dict built by insertions, and the signing lines of        *)
(*               _http_post;                                               *)
(*   Spec        the API operations, one call per behaviour, against a     *)
(*               scripted exchange; get_orders_history runs one loop       *)
(*               iteration per step.                                       *)
(*                                                                         *)
(* Conventions.  A Python str that the code inspects character by          *)
(* character (dict keys that are sorted, values that are converted with    *)
(* int() or str()) is a sequence of one-character strings; other strings   *)
(* are TLA+ strings.  A JSON scalar is a one-field record whose field name *)
(* is its Python type: [bool |-> TRUE], [int |-> 1], [str |-> <<"1">>].    *)
(* A decoded JSON object is a record; `k in data` is k \in DOMAIN data.    *)
(* The Wad-valued fields of an order (price, amount, deal_amount) pass     *)
(* through the external Wad.from_number and are not modelled.              *)
(***************************************************************************)
EXTENDS Integers, Sequences, FiniteSets, TLC

VARIABLES
    \* ---- SpecResult: one application of OKEXApi._result
    vResp,      \* the transport result handed to _result
    vCheck,     \* the check_result argument
    vOut,       \* None before the call, then the outcome
    \* ---- SpecSign: a params dict and its signature
    sParams,    \* the dict, as the sequence of <<key, value>> in insertion order
    sSecret,    \* self.secret_key
    sSign,      \* None, then the value of _create_signature(params)
    \* ---- Spec: one API call
    pc,         \* "idle" | "loop" | "exit" | "done"
    op,         \* the operation called and its arguments
    server,     \* the exchange's script: what it answers to each request
    requests,   \* the HTTP requests sent so far by this call
    page,       \* get_orders_history: the loop variable
    orders,     \* get_orders_history: the accumulated filtered rows
    outcome     \* None, then what the call returned or raised

vars == <<vResp, vCheck, vOut, sParams, sSecret, sSign,
          pc, op, server, requests, page, orders, outcome>>

resultVars == <<vResp, vCheck, vOut>>
signVars == <<sParams, sSecret, sSign>>
apiVars == <<pc, op, server, requests, page, orders, outcome>>

None == [none |-> TRUE]

Return(v) == [kind |-> "return", value |-> v]
Raise(e) == [kind |-> "raise", error |-> e]

(***************************************************************************)
(* JSON scalars and Python's conversions of them.                          *)
(***************************************************************************)
JBool(b) == [bool |-> b]
JInt(i) == [int |-> i]
JStr(s) == [str |-> s]

IsJBool(v) == DOMAIN v = {"bool"}
IsJInt(v) == DOMAIN v = {"int"}
IsJStr(v) == DOMAIN v = {"str"}

\* `x is True`: the bool singleton, not a value merely equal to it (1 == True)
IsTrue(v) == IsJBool(v) /\ v.bool

Digits == <<"0", "1", "2", "3", "4", "5", "6", "7", "8", "9">>

IsDigit(c) == \E i \in 1..Len(Digits) : Digits[i] = c
DigitValue(c) == (CHOOSE i \in 1..Len(Digits) : Digits[i] = c) - 1

RECURSIVE NatOfDigits(_)
NatOfDigits(s) ==
    IF s = <<>> THEN 0
    ELSE 10 * NatOfDigits(SubSeq(s, 1, Len(s) - 1)) + DigitValue(s[Len(s)])

AllDigits(s) == s # <<>> /\ \A i \in 1..Len(s) : IsDigit(s[i])

\* int(x) of a JSON scalar: an int is itself, a str is parsed as an optionally
\* signed decimal literal, anything else str-like raises ValueError
PyInt(v) ==
    IF IsJInt(v) THEN Return(v.int)
    ELSE IF IsJBool(v) THEN Return(IF v.bool THEN 1 ELSE 0)
    ELSE IF AllDigits(v.str) THEN Return(NatOfDigits(v.str))
    ELSE IF Len(v.str) > 1 /\ v.str[1] = "-" /\ AllDigits(Tail(v.str))
         THEN Return(0 - NatOfDigits(Tail(v.str)))
    ELSE Raise([exc |-> "ValueError"])

RECURSIVE DigitsOfNat(_)
DigitsOfNat(n) ==
    IF n < 10 THEN <<Digits[n + 1]>>
    ELSE DigitsOfNat(n \div 10) \o <<Digits[(n % 10) + 1]>>

\* str(x) of a JSON scalar
PyStr(v) ==
    IF IsJStr(v) THEN v.str
    ELSE IF IsJBool(v) THEN (IF v.bool THEN <<"T", "r", "u", "e">>
                                       ELSE <<"F", "a", "l", "s", "e">>)
    ELSE IF v.int < 0 THEN <<"-">> \o DigitsOfNat(0 - v.int)
    ELSE DigitsOfNat(v.int)

(***************************************************************************)
(* The transport result (requests.Response): ok, status_code, reason and   *)
(* the body, which is malformed (json() raises) or decodes to an object.   *)
(***************************************************************************)
Malformed == [malformed |-> TRUE]
Decoded(data) == [data |-> data]
IsMalformed(body) == DOMAIN body = {"malformed"}

Response(status_code, reason, body) ==
    [ok |-> status_code < 400, status_code |-> status_code,
     reason |-> reason, body |-> body]

HasKey(data, k) == k \in DOMAIN data

\* a mutant: the HTTP status is not looked at
ResultNoStatusCheck(result, check_result) ==
    IF IsMalformed(result.body)
    THEN Raise([exc |-> "JSONDecodeError"])
    ELSE LET data == result.body.data IN
         IF check_result /\ HasKey(data, "error_code")
         THEN Raise([exc |-> "Exception", msg |-> "OKCoin API error",
                     error_code |-> data.error_code])
         ELSE IF check_result /\ (~HasKey(data, "result") \/ ~IsTrue(data.result))
         THEN Raise([exc |-> "Exception", msg |-> "Negative OKCoin response",
                     data |-> data])
         ELSE Return(data)

\* a mutant: the business-level checks run whatever check_result is
ResultIgnoresFlag(result, check_result) ==
    IF ~result.ok
    THEN Raise([exc |-> "Exception", msg |-> "OKCoin API invalid HTTP response",
                status_code |-> result.status_code, reason |-> result.reason])
    ELSE IF IsMalformed(result.body)
    THEN Raise([exc |-> "JSONDecodeError"])
    ELSE LET data == result.body.data IN
         IF HasKey(data, "error_code")
         THEN Raise([exc |-> "Exception", msg |-> "OKCoin API error",
                     error_code |-> data.error_code])
         ELSE IF ~HasKey(data, "result") \/ ~IsTrue(data.result)
         THEN Raise([exc |-> "Exception", msg |-> "Negative OKCoin response",
                     data |-> data])
         ELSE Return(data)

\* a mutant: `data['result'] != True` in place of `is not True` (1 == True)
ResultEqualsTrue(result, check_result) ==
    IF ~result.ok
    THEN Raise([exc |-> "Exception", msg |-> "OKCoin API invalid HTTP response",
                status_code |-> result.status_code, reason |-> result.reason])
    ELSE IF IsMalformed(result.body)
    THEN Raise([exc |-> "JSONDecodeError"])
    ELSE LET data == result.body.data IN
         IF check_result /\ HasKey(data, "error_code")
         THEN Raise([exc |-> "Exception", msg |-> "OKCoin API error",
                     error_code |-> data.error_code])
         ELSE IF check_result /\ (~HasKey(data, "result")
                                  \/ ~(IsTrue(data.result) \/ data.result = JInt(1)))
         THEN Raise([exc |-> "Exception", msg |-> "Negative OKCoin response",
                     data |-> data])
         ELSE Return(data)

\* OKEXApi._result(result, check_result)
Result(result, check_result) ==
    IF ~result.ok
    THEN Raise([exc |-> "Exception", msg |-> "OKCoin API invalid HTTP response",
                status_code |-> result.status_code, reason |-> result.reason])
    ELSE IF IsMalformed(result.body)
    THEN Raise([exc |-> "JSONDecodeError"])
    ELSE LET data == result.body.data IN
         IF check_result /\ HasKey(data, "error_code")
         THEN Raise([exc |-> "Exception", msg |-> "OKCoin API error",
                     error_code |-> data.error_code])
         ELSE IF check_result /\ (~HasKey(data, "result") \/ ~IsTrue(data.result))
         THEN Raise([exc |-> "Exception", msg |-> "Negative OKCoin response",
                     data |-> data])
         ELSE Return(data)

(***************************************************************************)
(* The responses the validator is applied to.                              *)
(***************************************************************************)
Statuses == {<<200, "OK">>, <<201, "Created">>, <<404, "Not Found">>,
             <<500, "Internal Server Error">>}

ErrorCodes == {JInt(10001), JStr(<<"1", "0", "0", "0", "1">>)}

ResultValues == {JBool(TRUE), JBool(FALSE), JInt(1), JStr(<<"t", "r", "u", "e">>)}

\* the envelope fields of a payload: every combination of an optional
\* error_code and an optional result around the endpoint's own fields
Envelopes(own) ==
    {own}
    \cup {[error_code |-> e] @@ own : e \in ErrorCodes}
    \cup {[result |-> r] @@ own : r \in ResultValues}
    \cup {[error_code |-> e, result |-> r] @@ own :
             e \in ErrorCodes, r \in ResultValues}

TickerData == [date |-> JStr(<<"1">>), ticker |-> [last |-> JStr(<<"7">>)]]

Bodies == {Malformed}
          \cup {Decoded(d) : d \in Envelopes(TickerData)}
          \cup {Decoded(d) : d \in Envelopes([order_id |-> JInt(7)])}

Responses == {Response(s[1], s[2], b) : s \in Statuses, b \in Bodies}

ResultInit ==
    /\ vResp \in Responses
    /\ vCheck \in BOOLEAN
    /\ vOut = None

\* one call of _result
ResultCall ==
    /\ vOut = None
    /\ vOut' = Result(vResp, vCheck)
    /\ UNCHANGED <<vResp, vCheck>>

(***************************************************************************)
(* Request signing.  A dict is the sequence of its <<key, value>> items in *)
(* insertion order; keys are unique.                                       *)
(***************************************************************************)
\* the characters in code-point order; str comparison is by code point
Alphabet == <<"&", "-", "0", "1", "2", "3", "4", "5", "6", "7", "8", "9", "=",
              "A", "B", "C", "D", "E", "F", "G", "H", "I", "J", "K", "L", "M",
              "N", "O", "P", "Q", "R", "S", "T", "U", "V", "W", "X", "Y", "Z",
              "_",
              "a", "b", "c", "d", "e", "f", "g", "h", "i", "j", "k", "l", "m",
              "n", "o", "p", "q", "r", "s", "t", "u", "v", "w", "x", "y", "z">>

Ord(c) == CHOOSE i \in 1..Len(Alphabet) : Alphabet[i] = c

\* a < b on Python strs
RECURSIVE StrLess(_, _)
StrLess(a, b) ==
    IF b = <<>> THEN FALSE
    ELSE IF a = <<>> THEN TRUE
    ELSE IF a[1] = b[1] THEN StrLess(Tail(a), Tail(b))
    ELSE Ord(a[1]) < Ord(b[1])

DictKeys(d) == [i \in 1..Len(d) |-> d[i][1]]
DictHas(d, k) == \E i \in 1..Len(d) : d[i][1] = k
DictGet(d, k) == d[CHOOSE i \in 1..Len(d) : d[i][1] = k][2]

\* d[k] = v: an existing key keeps its place, a new key goes last
DictSet(d, k, v) ==
    IF DictHas(d, k)
    THEN [i \in 1..Len(d) |-> IF d[i][1] = k THEN <<k, v>> ELSE d[i]]
    ELSE Append(d, <<k, v>>)

\* sorted(keys) of distinct strs
RECURSIVE SortedSet(_)
SortedSet(S) ==
    IF S = {} THEN <<>>
    ELSE LET least == CHOOSE k \in S : \A o \in S \ {k} : StrLess(k, o)
         IN <<least>> \o SortedSet(S \ {least})

Sorted(keys) == SortedSet({keys[i] : i \in 1..Len(keys)})

\* the loop of _create_signature over a key order
RECURSIVE SignOver(_, _)
SignOver(params, keys) ==
    IF keys = <<>> THEN <<>>
    ELSE keys[1] \o <<"=">> \o PyStr(DictGet(params, keys[1])) \o <<"&">>
         \o SignOver(params, Tail(keys))

SecretKeyEq == <<"s", "e", "c", "r", "e", "t", "_", "k", "e", "y", "=">>

\* the string that is digested
SignData(params, secret_key) ==
    SignOver(params, Sorted(DictKeys(params))) \o SecretKeyEq \o secret_key

\* hashlib.md5(data.encode("utf8")).hexdigest().upper(): the digest is an
\* external function of the string; it is kept symbolic
Md5HexUpper(data) == [md5_hex_upper |-> data]

\* a mutant: the keys are taken in the dict's own (insertion) order
CreateSignatureUnsorted(params, secret_key) ==
    Md5HexUpper(SignOver(params, DictKeys(params)) \o SecretKeyEq \o secret_key)

\* OKEXApi._create_signature(params), with self.secret_key passed
CreateSignature(params, secret_key) ==
    Md5HexUpper(SignData(params, secret_key))

ApiKeyName == <<"a", "p", "i", "_", "k", "e", "y">>
SignName == <<"s", "i", "g", "n">>

\* self.api_key
ApiKey == <<"K", "1">>

\* the two assignments that open _http_post
HttpPostParams(params, secret_key) ==
    LET keyed == DictSet(params, ApiKeyName, JStr(ApiKey))
    IN DictSet(keyed, SignName, CreateSignature(keyed, secret_key))

MaxParams == 2

ParamKeys == {<<"a">>, <<"b">>, <<"a", "m", "o", "u", "n", "t">>,
              <<"s", "y", "m", "b", "o", "l">>,
              <<"o", "r", "d", "e", "r", "_", "i", "d">>}

ParamValues == {JInt(2), JInt(-1), JStr(<<"-", "1">>)}

Secrets == {<<"S">>, <<"a", "=", "1">>}

SignInit ==
    /\ sParams = <<>>
    /\ sSecret \in Secrets
    /\ sSign = None

\* the caller builds the parameter dict, one item at a time
SignInsert ==
    /\ sSign = None
    /\ \E k \in ParamKeys, v \in ParamValues :
          /\ DictHas(sParams, k) \/ Len(sParams) < MaxParams
          /\ sParams' = DictSet(sParams, k, v)
    /\ UNCHANGED <<sSecret, sSign>>

\* _http_post adds api_key, signs, and adds sign
SignPost ==
    /\ sSign = None
    /\ sParams' = HttpPostParams(sParams, sSecret)
    /\ sSign' = DictGet(sParams', SignName)
    /\ UNCHANGED sSecret

(***************************************************************************)
(* The specifications of the two pure functions.                           *)
(***************************************************************************)
ResultIdle == vResp = None /\ vCheck = FALSE /\ vOut = None
SignIdle == sParams = <<>> /\ sSecret = <<>> /\ sSign = None

ResultNext == ResultCall /\ UNCHANGED <<signVars, apiVars>>

SignNext ==
    \/ SignInsert /\ UNCHANGED <<resultVars, apiVars>>
    \/ SignPost /\ UNCHANGED <<resultVars, apiVars>>

(***************************************************************************)
(* The API operations.                                                     *)
(***************************************************************************)
Pairs == {"btc_usd"}

\* the exchange's order types; only the limit orders pass _filter_order
RowTypes == {"buy", "sell", "buy_market", "sell_market"}

\* OKEXApi._filter_order(item)
FilterOrder(item) == item.type \in {"buy", "sell"}

\* OKEXApi._parse_order(item), without the Wad fields
ParseOrder(item) ==
    [order_id |-> item.order_id,
     timestamp |-> item.create_date \div 1000,
     pair |-> item.symbol,
     is_sell |-> (item.type = "sell")]

ParseOrders(rows) == [i \in 1..Len(rows) |-> ParseOrder(rows[i])]

\* data[k] of a decoded object
GetItem(data, k) ==
    IF HasKey(data, k) THEN Return(data[k])
    ELSE Raise([exc |-> "KeyError", key |-> k])

\* the check_result parameter's default in _http_get
DefaultCheckResult == TRUE

GetRequest(resource, pair, check_result) ==
    [method |-> "GET", resource |-> resource, params |-> [symbol |-> pair],
     check_result |-> check_result]

\* the request of _http_post, with the caller's parameters; the api_key and
\* sign items it adds to them are those of HttpPostParams
PostRequest(resource, params) ==
    [method |-> "POST", resource |-> resource, params |-> params,
     check_result |-> TRUE]

\* OKEXApi._http_get, given the transport's response
HttpGet(response, check_result) == Result(response, check_result)

\* a mutant: the private endpoints skip the business-level check
HttpPostUnchecked(response) == Result(response, FALSE)

\* OKEXApi._http_post, given the transport's response
HttpPost(response) == Result(response, TRUE)

\* what ticker and depth return
PublicGet(response) == HttpGet(response, DefaultCheckResult)

\* get_balances: _http_post(...)["info"]["funds"]
GetBalancesOutcome(response) ==
    LET res == HttpPost(response) IN
    IF res.kind = "raise" THEN res
    ELSE LET info == GetItem(res.value, "info") IN
         IF info.kind = "raise" THEN info
         ELSE GetItem(info.value, "funds")

\* get_orders: the filtered, parsed result['orders']
GetOrdersOutcome(response) ==
    LET res == HttpPost(response) IN
    IF res.kind = "raise" THEN res
    ELSE LET rows == GetItem(res.value, "orders") IN
         IF rows.kind = "raise" THEN rows
         ELSE Return(ParseOrders(SelectSeq(rows.value, FilterOrder)))

\* place_order: int(result['order_id'])
PlaceOrderOutcome(response) ==
    LET res == HttpPost(response) IN
    IF res.kind = "raise" THEN res
    ELSE LET id == GetItem(res.value, "order_id") IN
         IF id.kind = "raise" THEN id
         ELSE PyInt(id.value)

\* a mutant: the response's id is compared as it came, without int()
CancelOrderOutcomeNoInt(response, order_id) ==
    LET res == HttpPost(response) IN
    IF res.kind = "raise" THEN res
    ELSE LET id == GetItem(res.value, "order_id") IN
         IF id.kind = "raise" THEN id
         ELSE Return(id.value = JInt(order_id))

\* cancel_order: success = int(result['order_id']) == order_id
CancelOrderOutcome(response, order_id) ==
    LET res == HttpPost(response) IN
    IF res.kind = "raise" THEN res
    ELSE LET id == GetItem(res.value, "order_id") IN
         IF id.kind = "raise" THEN id
         ELSE LET n == PyInt(id.value) IN
              IF n.kind = "raise" THEN n
              ELSE Return(n.value = order_id)

(***************************************************************************)
(* The exchange.  To a single-request operation it answers with one        *)
(* response.  To get_orders_history it answers page by page from a script: *)
(* `full` leading pages of `fullLen` rows, then one page of `tail` rows,   *)
(* then empty pages; row i of a page passes the filter iff `every` > 0     *)
(* divides i; the request for page `fail` (0: none) gets a failing         *)
(* response of kind `failKind`.                                            *)
(***************************************************************************)
\* page_length in get_orders_history
page_length == 200

\* a mutant: range(1, 101)
PageStopOffByOne == 100 + 1

\* the stop of range(1, 100) in get_orders_history
PageStop == 100

MaxFull == 2
MaxFailPage == 3
MaxTail == 10
MaxOrderId == 8

Row(pair, p, i, every) ==
    LET id == (p - 1) * 1000 + i IN
    [order_id |-> id,
     create_date |-> id * 1000 + 500,
     symbol |-> pair,
     type |-> IF every > 0 /\ i % every = 0
              THEN (IF (i \div every) % 2 = 1 THEN "buy" ELSE "sell")
              ELSE (IF i % 2 = 1 THEN "buy_market" ELSE "sell_market")]

Rows(pair, p, n, every) == [i \in 1..n |-> Row(pair, p, i, every)]

FailKinds == {"http_error", "error_code", "no_result", "result_false",
              "result_one", "malformed", "no_orders"}

\* the response that carries `own` as the endpoint's fields, or fails as `kind`
Reply(kind, own) ==
    CASE kind = "ok" -> Response(200, "OK", Decoded([result |-> JBool(TRUE)] @@ own))
      [] kind = "http_error" ->
            Response(500, "Internal Server Error",
                     Decoded([result |-> JBool(TRUE)] @@ own))
      [] kind = "error_code" ->
            Response(200, "OK",
                     Decoded([error_code |-> JInt(10001), result |-> JBool(TRUE)] @@ own))
      [] kind = "no_result" -> Response(200, "OK", Decoded(own))
      [] kind = "result_false" ->
            Response(200, "OK", Decoded([result |-> JBool(FALSE)] @@ own))
      [] kind = "result_one" ->
            Response(200, "OK", Decoded([result |-> JInt(1)] @@ own))
      [] kind = "malformed" -> Response(200, "OK", Malformed)
      [] kind = "no_orders" ->
            Response(200, "OK", Decoded([result |-> JBool(TRUE)]))

PageLen(srv, k) ==
    IF k <= srv.full THEN srv.fullLen
    ELSE IF k = srv.full + 1 THEN srv.tail
    ELSE 0

PageRows(srv, pair, k) == Rows(pair, k, PageLen(srv, k), srv.every)

PageResponse(srv, pair, k) ==
    Reply(IF k = srv.fail THEN srv.failKind ELSE "ok",
          [orders |-> PageRows(srv, pair, k)])

\* the pages that may fail: the first, a later one, the last the loop reaches
FailPages == {1, MaxFailPage, PageStop - 1}

\* a script with a few full pages before its tail, or with every page full
BaseScripts ==
    {[full |-> f, fullLen |-> l, every |-> e, tail |-> t] :
        f \in 0..MaxFull, l \in {page_length, page_length + 1},
        e \in {0, 1, 8}, t \in {0, MaxTail}}
    \cup
    {[full |-> PageStop - 1, fullLen |-> l, every |-> e, tail |-> 0] :
        l \in {page_length, page_length + 1}, e \in {0, 1, 8}}

Scripts ==
    {b @@ [fail |-> 0, failKind |-> "ok"] : b \in BaseScripts}
    \cup {b @@ [fail |-> x, failKind |-> k] :
             b \in BaseScripts, x \in FailPages, k \in FailKinds}

NumbersOfOrders ==
    {-1, 0, 1, 50} \cup {page_length * k + 50 : k \in 1..MaxFull}

OrderIds == (MaxOrderId - 1)..MaxOrderId

\* the order ids a response may carry: ints and strs, one of them no number
ResponseIds ==
    {JInt(i) : i \in OrderIds} \cup {JStr(DigitsOfNat(i)) : i \in OrderIds}
    \cup {JStr(<<"x">>)}

ReplyKinds == {"ok"} \cup (FailKinds \ {"no_orders"})

\* the public endpoints answer with bare data, or with an envelope around it
PublicResponses ==
    {Response(s[1], s[2], b) : s \in {<<200, "OK">>, <<500, "Internal Server Error">>},
                              b \in {Malformed} \cup {Decoded(d) : d \in Envelopes(TickerData)}}

Funds == [free |-> [btc |-> JStr(<<"1">>)]]

BalancesResponses ==
    {Reply(k, [info |-> [funds |-> Funds]]) : k \in ReplyKinds}
    \cup {Reply("ok", [info |-> [other |-> Funds]]), Reply("no_orders", <<>>)}

OrdersResponses(pair) ==
    {Reply(k, [orders |-> Rows(pair, 1, n, e)]) :
        k \in ReplyKinds, n \in {0, 3}, e \in {0, 1, 2}}
    \cup {Reply("no_orders", <<>>)}

OrderIdResponses ==
    {Reply(k, [order_id |-> id]) : k \in ReplyKinds, id \in ResponseIds}
    \cup {Reply("no_orders", <<>>)}

ApiInit ==
    /\ pc = "idle"
    /\ op = None
    /\ server = None
    /\ requests = <<>>
    /\ page = 0
    /\ orders = <<>>
    /\ outcome = None

\* a single-request operation, from the call to its return or raise
Single(o, srv, request, result) ==
    /\ op' = o
    /\ server' = [response |-> srv]
    /\ requests' = <<request>>
    /\ outcome' = result
    /\ pc' = "done"
    /\ UNCHANGED <<page, orders>>

ticker ==
    /\ pc = "idle"
    /\ \E pair \in Pairs, r \in PublicResponses :
        Single([name |-> "ticker", pair |-> pair], r,
               GetRequest("/api/v1/ticker.do", pair, DefaultCheckResult),
               PublicGet(r))

depth ==
    /\ pc = "idle"
    /\ \E pair \in Pairs, r \in PublicResponses :
        Single([name |-> "depth", pair |-> pair], r,
               GetRequest("/api/v1/depth.do", pair, DefaultCheckResult),
               PublicGet(r))

get_balances ==
    /\ pc = "idle"
    /\ \E r \in BalancesResponses :
        Single([name |-> "get_balances"], r,
               PostRequest("/api/v1/userinfo.do", <<>>),
               GetBalancesOutcome(r))

get_orders ==
    /\ pc = "idle"
    /\ \E pair \in Pairs : \E r \in OrdersResponses(pair) :
        Single([name |-> "get_orders", pair |-> pair], r,
               PostRequest("/api/v1/order_info.do",
                           [symbol |-> pair, order_id |-> JStr(<<"-", "1">>)]),
               GetOrdersOutcome(r))

\* price and amount are sent as float(Wad) values and are left out
place_order ==
    /\ pc = "idle"
    /\ \E pair \in Pairs, is_sell \in BOOLEAN, r \in OrderIdResponses :
        Single([name |-> "place_order", pair |-> pair, is_sell |-> is_sell], r,
               PostRequest("/api/v1/trade.do",
                           [symbol |-> pair,
                            type |-> IF is_sell THEN "sell" ELSE "buy"]),
               PlaceOrderOutcome(r))

cancel_order ==
    /\ pc = "idle"
    /\ \E pair \in Pairs, order_id \in OrderIds, r \in OrderIdResponses :
        Single([name |-> "cancel_order", pair |-> pair, order_id |-> order_id], r,
               PostRequest("/api/v1/cancel_order.do",
                           [symbol |-> pair, order_id |-> JInt(order_id)]),
               CancelOrderOutcome(r, order_id))

Min(a, b) == IF a < b THEN a ELSE b
Max(a, b) == IF a > b THEN a ELSE b

\* a mutant: the slice keeps everything
PySliceToAll(s, n) == s

\* s[:n] of a list
PySliceTo(s, n) ==
    SubSeq(s, 1, IF n < 0 THEN Max(Len(s) + n, 0) ELSE Min(n, Len(s)))

\* a mutant: only the count ends the loop
LoopBreaksOnCountOnly(result, accumulated, number_of_orders) ==
    Len(accumulated) >= number_of_orders

\* the three breaks of the loop of get_orders_history, after a page
LoopBreaks(result, accumulated, number_of_orders) ==
    \/ Len(result) = 0
    \/ Len(result) < page_length
    \/ Len(accumulated) >= number_of_orders

HistoryRequest(pair, p) ==
    PostRequest("/api/v1/order_history.do",
                [symbol |-> pair, status |-> 100, current_page |-> p,
                 page_length |-> page_length])

\* whether the for loop has a next value after p
HasNextPage(p) == p + 1 < PageStop

\* the call of get_orders_history up to the loop: orders = [], page = 1
get_orders_history_begin ==
    /\ pc = "idle"
    /\ \E pair \in Pairs, n \in NumbersOfOrders, srv \in Scripts :
          /\ op' = [name |-> "get_orders_history", pair |-> pair,
                    number_of_orders |-> n]
          /\ server' = srv
    /\ orders' = <<>>
    /\ page' = 1
    /\ pc' = "loop"
    /\ UNCHANGED <<requests, outcome>>

\* one iteration of the loop: the request for `page`, its validation, the
\* accumulation and the breaks; an exception ends the call.  (Each value is
\* bound with \E over a singleton, so that it is computed once.)
get_orders_history_page ==
    /\ pc = "loop"
    /\ requests' = Append(requests, HistoryRequest(op.pair, page))
    /\ \E res \in {HttpPost(PageResponse(server, op.pair, page))} :
       \E rows \in {IF res.kind = "raise" THEN res
                    ELSE GetItem(res.value, "orders")} :
          IF rows.kind = "raise"
          THEN /\ outcome' = rows
               /\ pc' = "done"
               /\ UNCHANGED <<page, orders>>
          ELSE \E result \in {rows.value} :
               \E accumulated \in {orders \o SelectSeq(result, FilterOrder)} :
                  /\ orders' = accumulated
                  /\ IF LoopBreaks(result, accumulated, op.number_of_orders)
                        \/ ~HasNextPage(page)
                     THEN pc' = "exit" /\ page' = page
                     ELSE pc' = "loop" /\ page' = page + 1
                  /\ UNCHANGED outcome
    /\ UNCHANGED <<op, server>>

\* the return after the loop: the truncated, parsed list
get_orders_history_return ==
    /\ pc = "exit"
    /\ outcome' = Return(ParseOrders(PySliceTo(orders, op.number_of_orders)))
    /\ pc' = "done"
    /\ UNCHANGED <<op, server, requests, page, orders>>

Init == ApiInit /\ ResultIdle /\ SignIdle

Next ==
    \/ ticker /\ UNCHANGED <<resultVars, signVars>>
    \/ depth /\ UNCHANGED <<resultVars, signVars>>
    \/ get_balances /\ UNCHANGED <<resultVars, signVars>>
    \/ get_orders /\ UNCHANGED <<resultVars, signVars>>
    \/ place_order /\ UNCHANGED <<resultVars, signVars>>
    \/ cancel_order /\ UNCHANGED <<resultVars, signVars>>
    \/ get_orders_history_begin /\ UNCHANGED <<resultVars, signVars>>
    \/ get_orders_history_page /\ UNCHANGED <<resultVars, signVars>>
    \/ get_orders_history_return /\ UNCHANGED <<resultVars, signVars>>

Spec == Init /\ [][Next]_vars

InitResult == ResultInit /\ SignIdle /\ ApiInit

SpecResult == InitResult /\ [][ResultNext]_vars

InitSign == SignInit /\ ResultIdle /\ ApiInit

SpecSign == InitSign /\ [][SignNext]_vars

(***************************************************************************)
(* What the claims are stated with.  These are written from the script and *)
(* the arguments, not from the operations' results.                        *)
(***************************************************************************)
PrivateOps == {"get_balances", "get_orders", "get_orders_history",
               "place_order", "cancel_order"}

Called(name) == pc # "idle" /\ op.name = name

\* a decoded payload that the business-level check must reject
BusinessFailure(data) ==
    \/ "error_code" \in DOMAIN data
    \/ "result" \notin DOMAIN data
    \/ data.result # [bool |-> TRUE]

Validates(r) == r.ok /\ ~IsMalformed(r.body) /\ ~BusinessFailure(r.body.data)

\* how many rows of a page of n rows are limit orders
PassCount(n, every) == IF every = 0 THEN 0 ELSE n \div every

\* the filtered rows accumulated over pages 1..k of a script
CountThrough(srv, k) ==
    (IF k < srv.full THEN k ELSE srv.full) * PassCount(srv.fullLen, srv.every)
    + (IF k > srv.full THEN PassCount(srv.tail, srv.every) ELSE 0)

IsLimitOrder(row) == row.type = "buy" \/ row.type = "sell"

\* the limit orders of pages 1..k, in page order
RECURSIVE Pool(_, _, _)
Pool(srv, pair, k) ==
    IF k = 0 THEN <<>>
    ELSE Pool(srv, pair, k - 1) \o SelectSeq(PageRows(srv, pair, k), IsLimitOrder)

\* every page requested so far validated and carried its rows
PagesValidated == server.fail \notin 1..Len(requests)

ExceptionNamed(msg) ==
    /\ outcome.kind = "raise"
    /\ "msg" \in DOMAIN outcome.error
    /\ outcome.error.msg = msg

NotSignItem(item) == item[1] # SignName

\* the mapping that was signed: the dict without its sign item
Signed(d) == SelectSeq(d, NotSignItem)

\* the same items in every insertion order
InsertionOrders(d) ==
    {[i \in 1..Len(d) |-> d[f[i]]] : f \in Permutations(1..Len(d))}

Ascending(ks) == \A i \in 1..(Len(ks) - 1) : StrLess(ks[i], ks[i + 1])

(***************************************************************************)
(* The claims.                                                             *)
(***************************************************************************)

\* C1: ticker(pair) and depth(pair) send their GET with check_result false:
\* for every ok-status response whose body decodes, whatever the payload
\* holds, the call returns the payload unchanged and raises nothing.
C1_PublicGetReturnsPayload ==
    (pc = "done" /\ op.name \in {"ticker", "depth"}
        /\ server.response.ok /\ ~IsMalformed(server.response.body))
    => /\ requests[1].check_result = FALSE
       /\ outcome = Return(server.response.body.data)

\* C2: for an ok-status response whose decoded payload carries error_code,
\* _result raises the API error (with that code) when check_result is true,
\* and returns the identical payload when check_result is false.
C2_ErrorCodeByFlag ==
    (vOut # None /\ vResp.ok /\ ~IsMalformed(vResp.body)
        /\ "error_code" \in DOMAIN vResp.body.data)
    => IF vCheck
       THEN vOut = Raise([exc |-> "Exception", msg |-> "OKCoin API error",
                          error_code |-> vResp.body.data.error_code])
       ELSE vOut = Return(vResp.body.data)

C2_Witness ==
    /\ vOut # None /\ vResp.ok /\ ~IsMalformed(vResp.body)
    /\ DOMAIN vResp.body.data = {"error_code"} \cup DOMAIN TickerData
    /\ ~vCheck
    /\ vOut.kind = "return"

\* C3: when the transport result is not ok, _result raises the HTTP error
\* carrying status code and reason, for both values of check_result and
\* whatever the body is, and returns no payload.
C3_StatusCheckedFirst ==
    (vOut # None /\ ~vResp.ok)
    => vOut = Raise([exc |-> "Exception",
                     msg |-> "OKCoin API invalid HTTP response",
                     status_code |-> vResp.status_code,
                     reason |-> vResp.reason])

C3_Witness ==
    /\ vOut # None /\ ~vResp.ok /\ ~vCheck
    /\ ~IsMalformed(vResp.body)
    /\ ~BusinessFailure(vResp.body.data)
    /\ vOut.kind = "raise"

\* C4: every private operation enforces the business-level check: an
\* ok-status response whose payload carries error_code, lacks result, or has
\* a result that is not the literal true, makes the call raise; nothing is
\* returned.
C4_PrivateOpsEnforceCheck ==
    (pc # "idle" /\ op.name \in PrivateOps)
    => LET seen == IF op.name = "get_orders_history"
                   THEN (IF server.fail \in 1..Len(requests)
                         THEN {PageResponse(server, op.pair, server.fail)}
                         ELSE {})
                   ELSE {server.response}
       IN \A r \in seen :
            (r.ok /\ ~IsMalformed(r.body) /\ BusinessFailure(r.body.data))
            => /\ pc = "done"
               /\ outcome.kind = "raise"
               /\ outcome.error.exc = "Exception"

C4_Witness ==
    /\ pc = "done" /\ op.name = "cancel_order"
    /\ server.response.ok /\ ~IsMalformed(server.response.body)
    /\ "result" \in DOMAIN server.response.body.data
    /\ server.response.body.data.result = [int |-> 1]
    /\ "error_code" \notin DOMAIN server.response.body.data
    /\ ExceptionNamed("Negative OKCoin response")

\* C5: get_orders_history(pair, n) with n >= 0 and validating pages: once
\* the filtered rows of the fetched pages number at least n, no further page
\* is requested, and the call returns exactly n orders, the first n filtered
\* rows in page order.
C5_HistoryReturnsFirstN ==
    (Called("get_orders_history") /\ op.number_of_orders >= 0 /\ PagesValidated
        /\ Len(requests) >= 1
        /\ CountThrough(server, Len(requests)) >= op.number_of_orders)
    => LET n == op.number_of_orders
           first == CHOOSE k \in 1..Len(requests) :
                        /\ CountThrough(server, k) >= n
                        /\ \A j \in 1..(k - 1) : CountThrough(server, j) < n
       IN /\ Len(requests) = first
          /\ pc \in {"exit", "done"}
          /\ pc = "done" =>
                /\ outcome.kind = "return"
                /\ Len(outcome.value) = n
                /\ LET pool == Pool(server, op.pair, first)
                   IN \A i \in 1..n :
                        /\ outcome.value[i].order_id = pool[i].order_id
                        /\ outcome.value[i].is_sell = (pool[i].type = "sell")
                        /\ outcome.value[i].pair = op.pair

C5_Witness ==
    /\ pc = "done" /\ op.name = "get_orders_history"
    /\ op.number_of_orders = 250
    /\ server.fail = 0 /\ server.every = 1
    /\ server.full = 2 /\ server.fullLen = 200 /\ server.tail = 10
    /\ Len(requests) = 2
    /\ Len(orders) = 400
    /\ outcome.kind = "return" /\ Len(outcome.value) = 250

\* C6: get_orders_history whose first page validates and has zero rows
\* returns the empty list after exactly one page request, page 1, for every
\* number_of_orders.
C6_EmptyFirstPage ==
    (Called("get_orders_history") /\ server.fail # 1
        /\ PageLen(server, 1) = 0)
    => /\ Len(requests) <= 1
       /\ pc = "done" =>
             /\ outcome = Return(<<>>)
             /\ Len(requests) = 1
             /\ requests[1].params.current_page = 1

C6_Witness ==
    /\ pc = "done" /\ op.name = "get_orders_history"
    /\ server.fail = 0 /\ server.full = 0 /\ server.tail = 0
    /\ op.number_of_orders = 50
    /\ Len(requests) = 1
    /\ outcome = Return(<<>>)

C7_Pagination ==
    Called("get_orders_history")
    => /\ Len(requests) <= 99
       /\ pc \in {"exit", "done"} => Len(requests) >= 1
       /\ \A i \in 1..Len(requests) :
            requests[i] = [method |-> "POST",
                           resource |-> "/api/v1/order_history.do",
                           params |-> [symbol |-> op.pair, status |-> 100,
                                       current_page |-> i, page_length |-> 200],
                           check_result |-> TRUE]
       /\ \A k \in 1..(Len(requests) - 1) :
            /\ server.fail # k
            /\ PageLen(server, k) >= 200
            /\ CountThrough(server, k) < op.number_of_orders

\* the steps a call has left, at most
Remaining ==
    CASE pc = "idle" -> 102
      [] pc = "loop" -> 101 - Len(requests)
      [] pc = "exit" -> 1
      [] pc = "done" -> 0

\* C7: the page requests of a get_orders_history call are pages 1, 2, 3, ...
\* with page_length 200 and status 100; page 1 is always requested; page
\* k+1 is requested only if page k had at least 200 raw rows and the
\* filtered count after it is below number_of_orders; and the call ends
\* after at most 99 page requests: a call that has not ended can always
\* take a step, and every step leaves fewer steps to take.
C7_PaginationTerminates ==
    /\ [](C7_Pagination /\ Remaining >= 0 /\ (pc # "done" => ENABLED Next))
    /\ [][Remaining' < Remaining]_vars

C7_Witness ==
    /\ pc = "done" /\ op.name = "get_orders_history"
    /\ server.fail = 0
    /\ Len(requests) = 99
    /\ outcome = Return(<<>>)

\* C8: get_orders_history has no partial success: when the fetch or the
\* validation of a page fails, the call raises that error at once, requests
\* no further page and returns none of the accumulated orders; a list is
\* returned only when every requested page validated.
C8_NoPartialSuccess ==
    Called("get_orders_history")
    => /\ ~PagesValidated =>
             /\ Len(requests) = server.fail
             /\ pc = "done"
             /\ outcome.kind = "raise"
             /\ outcome.error.exc
                  = CASE server.failKind = "malformed" -> "JSONDecodeError"
                      [] server.failKind = "no_orders" -> "KeyError"
                      [] OTHER -> "Exception"
       /\ (pc = "done" /\ outcome.kind = "return") => PagesValidated

C8_Witness ==
    /\ pc = "done" /\ op.name = "get_orders_history"
    /\ server.fail = MaxFailPage
    /\ Len(requests) = MaxFailPage
    /\ Len(orders) > 0
    /\ outcome.kind = "raise"

\* C9: cancel_order(pair, order_id) returns true iff the order id of the
\* (validated) response equals order_id; a different id gives false, and no
\* error.
C9_CancelIffSameId ==
    (pc = "done" /\ op.name = "cancel_order" /\ Validates(server.response)
        /\ "order_id" \in DOMAIN server.response.body.data)
    => LET id == server.response.body.data.order_id IN
       /\ IsJInt(id) => outcome = Return(id.int = op.order_id)
       /\ (IsJStr(id) /\ AllDigits(id.str))
            => outcome = Return(NatOfDigits(id.str) = op.order_id)

C9_Witness ==
    /\ pc = "done" /\ op.name = "cancel_order" /\ Validates(server.response)
    /\ "order_id" \in DOMAIN server.response.body.data
    /\ server.response.body.data.order_id = [int |-> op.order_id + 1]
    /\ outcome = Return(FALSE)

\* C10: signing does not depend on the insertion order of the parameters:
\* every insertion order of the same items gives the signature that was
\* computed, and what is digested is key=value& for each key in ascending
\* key order, followed by secret_key=<secret>.
C10_SignOrderIndependent ==
    sSign # None
    => LET m == Signed(sParams) IN
       /\ \A q \in InsertionOrders(m) : CreateSignature(q, sSecret) = sSign
       /\ \E ks \in InsertionOrders(DictKeys(m)) :
            /\ Ascending(ks)
            /\ sSign = [md5_hex_upper |->
                          SignOver(m, ks) \o SecretKeyEq \o sSecret]

C10_Witness ==
    /\ sSign # None
    /\ Len(sParams) >= 4
    /\ sParams[1][1] = <<"b">>
    /\ sParams[2][1] = <<"a">>
    /\ sParams[1][2] = [int |-> 2]

====
